---- MODULE Spec2Model ----
(***************************************************************************)
(* constcat: concat!, concat_bytes! and concat_slices! (src/src/lib.rs).   *)
(*                                                                         *)
(* The three macros are evaluated at compile time.  The model follows one  *)
(* macro invocation from its call site through the macro arms that match   *)
(* it, down to the element-by-element copy of _concat_slices! and back.    *)
(*                                                                         *)
(* A text (&str) is a sequence of Unicode scalar values; its bytes are its *)
(* UTF-8 encoding.  A slice is a sequence of element values.  Sequences of *)
(* the code are 0-indexed, sequences of TLA+ 1-indexed: cell n of the code *)
(* is arr[n + 1] here.                                                     *)
(***************************************************************************)
EXTENDS Integers, Sequences, FiniteSets, TLC

\* Bounds of the explored call sites: the pieces of a concat_slices! call and
\* the length of each, the inputs of a concat! or concat_bytes! call and the
\* length of each (in scalar values, in bytes), and the elements of all the
\* inputs of a call together.
MaxPieces == 3
MaxLen == 2
MaxArgs == 2
MaxChars == 1
MaxTotal == 5

\* Element values of a [T] piece, byte values of a [u8] piece, the scalar
\* values of a text expression ("A", U+00E9, U+20AC, U+1F389: one of each
\* encoded length), those of a string literal, and the digit strings of
\* integer literals (7 and 42).
ElemVals == 0 .. 1
ByteVals == {65, 255}
Chars == {65, 233, 8364, 127881}
LitChars == {65, 233}
IntLits == {<<7>>, <<4, 2>>}

SeqsUpTo(S, n) == UNION {[1 .. m -> S] : m \in 0 .. n}

(***************************************************************************)
(* Texts and their bytes.                                                  *)
(***************************************************************************)

\* The UTF-8 encoding of one scalar value.
EncodeChar(c) ==
    IF c < 128 THEN <<c>>
    ELSE IF c < 2048 THEN <<192 + (c \div 64), 128 + (c % 64)>>
    ELSE IF c < 65536
         THEN <<224 + (c \div 4096), 128 + ((c \div 64) % 64), 128 + (c % 64)>>
    ELSE <<240 + (c \div 262144), 128 + ((c \div 4096) % 64),
           128 + ((c \div 64) % 64), 128 + (c % 64)>>

\* $s.as_bytes(): the bytes of a text.
RECURSIVE as_bytes(_)
as_bytes(s) ==
    IF s = <<>> THEN <<>> ELSE EncodeChar(Head(s)) \o as_bytes(Tail(s))

\* The number of bytes a sequence starting with lead byte b claims (0: b
\* cannot start a sequence).
SeqWidth(b) ==
    IF b < 128 THEN 1
    ELSE IF b >= 194 /\ b <= 223 THEN 2
    ELSE IF b >= 224 /\ b <= 239 THEN 3
    ELSE IF b >= 240 /\ b <= 244 THEN 4
    ELSE 0

IsCont(b) == b >= 128 /\ b <= 191

\* The scalar value a well-formed sequence of 1 to 4 bytes stands for.
DecodeChar(u) ==
    IF Len(u) = 1 THEN u[1]
    ELSE IF Len(u) = 2 THEN (u[1] - 192) * 64 + (u[2] - 128)
    ELSE IF Len(u) = 3
         THEN (u[1] - 224) * 4096 + (u[2] - 128) * 64 + (u[3] - 128)
    ELSE (u[1] - 240) * 262144 + (u[2] - 128) * 4096
         + (u[3] - 128) * 64 + (u[4] - 128)

\* The least scalar value that needs w bytes.
MinScalar(w) == IF w = 1 THEN 0 ELSE IF w = 2 THEN 128 ELSE IF w = 3 THEN 2048 ELSE 65536

\* Valid UTF-8: every sequence is complete, its continuation bytes are
\* continuation bytes, it is the shortest form, no surrogate, at most U+10FFFF.
RECURSIVE IsValidUtf8(_)
IsValidUtf8(b) ==
    IF b = <<>> THEN TRUE
    ELSE LET w == SeqWidth(b[1]) IN
         /\ w > 0
         /\ w <= Len(b)
         /\ \A n \in 2 .. w : IsCont(b[n])
         /\ LET c == DecodeChar(SubSeq(b, 1, w)) IN
               /\ c >= MinScalar(w)
               /\ c <= 1114111
               /\ ~(c >= 55296 /\ c <= 57343)
         /\ IsValidUtf8(SubSeq(b, w + 1, Len(b)))

\* The text that valid UTF-8 bytes stand for.
RECURSIVE Utf8Decode(_)
Utf8Decode(b) ==
    IF b = <<>> THEN <<>>
    ELSE LET w == SeqWidth(b[1]) IN
         <<DecodeChar(SubSeq(b, 1, w))>> \o Utf8Decode(SubSeq(b, w + 1, Len(b)))

\* Each byte read as one scalar value (Latin-1), not as UTF-8.
from_latin1(b) == {b}

\* core::str::from_utf8_unchecked(slice): the set of texts the call can
\* yield.  On valid UTF-8 it is the text the bytes stand for; on anything else
\* the call is undefined behaviour and any text may come out.
from_utf8_unchecked(b) ==
    IF IsValidUtf8(b) THEN {Utf8Decode(b)} ELSE SeqsUpTo(Chars, 1)

(***************************************************************************)
(* Call-site inputs.  An input is a literal token or a constant            *)
(* expression; val is the value of an expression, the content of a string  *)
(* or byte-string literal, the digits of an integer literal.               *)
(***************************************************************************)

TextInputs ==
    {[kind |-> "expr", val |-> v] : v \in SeqsUpTo(Chars, MaxChars)}
    \cup {[kind |-> "lit", val |-> v] : v \in SeqsUpTo(LitChars, MaxChars)}
    \cup {[kind |-> "intlit", val |-> v] : v \in IntLits}

ByteInputs ==
    {[kind |-> kd, val |-> v] : kd \in {"expr", "lit"}, v \in SeqsUpTo(ByteVals, MaxChars)}

SliceInputs == {[kind |-> "expr", val |-> v] : v \in SeqsUpTo(ElemVals, MaxLen)}

\* The number of elements of all the inputs together.
RECURSIVE TotalLen(_)
TotalLen(es) == IF es = <<>> THEN 0 ELSE Len(Head(es).val) + TotalLen(Tail(es))

IsLiteral(e) == e.kind \in {"lit", "intlit"}

\* core::concat!($e) of one literal: a string literal is its content, an
\* integer literal is its digits as text.
std_concat(e) ==
    IF e.kind = "intlit" THEN [n \in 1 .. Len(e.val) |-> 48 + e.val[n]] ELSE e.val

\* core::concat_bytes!($e) of one byte-string literal: its bytes.
std_concat_bytes(e) == e.val

\* _maybe_std_concat!: a literal goes through core::concat!, anything else
\* is left as it is.
_maybe_std_concat(e) == IF IsLiteral(e) THEN std_concat(e) ELSE e.val

\* _maybe_std_concat_bytes!
_maybe_std_concat_bytes(e) == IF IsLiteral(e) THEN std_concat_bytes(e) ELSE e.val

\* The maximal runs of adjacent literals folded into one text each.
RECURSIVE MergeLiteralRuns(_)
MergeLiteralRuns(es) ==
    IF es = <<>> THEN <<>>
    ELSE IF Len(es) >= 2 /\ IsLiteral(es[1]) /\ IsLiteral(es[2])
         THEN LET rest == MergeLiteralRuns(Tail(es)) IN
              <<std_concat(es[1]) \o Head(rest)>> \o Tail(rest)
    ELSE <<_maybe_std_concat(es[1])>> \o MergeLiteralRuns(Tail(es))

\* $($crate::_maybe_std_concat!($maybe)),+ : the repetition expands once per
\* input, in call-site order.
ConcatPieces(es) == [n \in 1 .. Len(es) |-> _maybe_std_concat(es[n])]

\* $($crate::_maybe_std_concat_bytes!($maybe)),+
ConcatBytesPieces(es) == [n \in 1 .. Len(es) |-> _maybe_std_concat_bytes(es[n])]

(***************************************************************************)
(* _concat_slices!                                                         *)
(***************************************************************************)

Zeroed == [init |-> FALSE, val |-> 0]

\* A one-element array where the empty one belongs.
OneElementArr == <<0>>

\* const ARR: [$T; 0] = [];
EmptyArr == <<>>

\* const LEN: usize = $( $s.len() + )* 0;
RECURSIVE SumLen(_)
SumLen(ps) == IF ps = <<>> THEN 0 ELSE Len(Head(ps)) + SumLen(Tail(ps))

\* One cell too many.
ZeroedArrayOffByOne(n) == [c \in 1 .. n + 1 |-> Zeroed]

\* [MaybeUninit::zeroed(); LEN]
ZeroedArray(n) == [c \in 1 .. n |-> Zeroed]

\* Every element of the piece read at index 0.
ElemAtFirst(s, n) == s[1]

\* $s[i]
ElemAt(s, n) == s[n + 1]

\* The index is base, not base + i.
CellIndexNoOffset(b, n) == b

\* base + i, the index of the cell written
CellIndex(b, n) == b + n

\* arr[c] = MaybeUninit::new(v);
WriteCell(a, c, v) == [a EXCEPT ![c + 1] = [init |-> TRUE, val |-> v]]

\* base advanced one too far.
NewBaseOffByOne(b, s) == b + Len(s) + 1

\* base += $s.len();
NewBase(b, s) == b + Len(s)

\* What a cell that was never written can be read as after the transmute:
\* its bytes are zero, which T may or may not give a meaning to.
ZeroedReads == {0, 1}

\* transmute(arr): [MaybeUninit<T>; LEN] read as [T; LEN].
Transmute(a) ==
    LET unwritten == {c \in 1 .. Len(a) : ~a[c].init} IN
    {[c \in 1 .. Len(a) |-> IF a[c].init THEN a[c].val ELSE f[c]] :
        f \in [unwritten -> ZeroedReads]}

\* while i < $s.len() { arr[base + i] = MaybeUninit::new($s[i]); i += 1; }
\* An index past the end of arr panics: the result is then no array (<<>> of
\* no cells cannot be told from an array, so the panic is a flag).
RECURSIVE CopyPiece(_, _, _, _)
CopyPiece(r, b, s, n) ==
    IF ~r.ok \/ ~(n < Len(s)) THEN r
    ELSE IF CellIndex(b, n) < Len(r.arr)
         THEN CopyPiece([ok |-> TRUE,
                         arr |-> WriteCell(r.arr, CellIndex(b, n), ElemAt(s, n))],
                        b, s, n + 1)
    ELSE [ok |-> FALSE, arr |-> r.arr]

\* $({ ...; base += $s.len(); })* from piece number p on: the staging array
\* and the base after the last piece.
RECURSIVE CopyPieces(_, _, _, _)
CopyPieces(r, b, ps, p) ==
    IF p > Len(ps) THEN [ok |-> r.ok, arr |-> r.arr, base |-> b]
    ELSE CopyPieces(CopyPiece(r, b, ps[p], 0), NewBase(b, ps[p]), ps, p + 1)

\* _concat_slices!([T]: ps) as a function of its pieces: the set of values
\* the constant can have (empty when the evaluation panics).
_concat_slices(ps) ==
    IF ps = <<>> THEN {EmptyArr}
    ELSE LET r == CopyPieces([ok |-> TRUE, arr |-> ZeroedArray(SumLen(ps))], 0, ps, 1) IN
         IF ~r.ok \/ r.base # SumLen(ps) THEN {} ELSE Transmute(r.arr)

\* concat_slices!([T]: ps)
concat_slices(ps) == _concat_slices(ps)

(***************************************************************************)
(* One macro invocation, step by step.                                     *)
(***************************************************************************)

VARIABLES
    macro,      \* the macro named at the call site
    inputs,     \* its arguments, in call-site order
    pieces,     \* the $s of _concat_slices!, in order
    arm,        \* the arm of _concat_slices! that matched
    pc,         \* where the evaluation stands
    LEN,        \* const LEN
    arr,        \* the staging array
    written,    \* how often each cell of arr was assigned
    base,       \* let mut base
    k,          \* the piece being copied (1-based), 0 before the first
    i,          \* let mut i
    ARR,        \* const ARR
    out         \* the value of the macro invocation

vars == <<macro, inputs, pieces, arm, pc, LEN, arr, written, base, k, i, ARR, out>>

Init ==
    /\ \/ macro = "concat" /\ inputs \in SeqsUpTo(TextInputs, MaxArgs)
       \/ macro = "concat_bytes" /\ inputs \in SeqsUpTo(ByteInputs, MaxArgs)
       \/ macro = "concat_slices" /\ inputs \in SeqsUpTo(SliceInputs, MaxPieces)
    /\ TotalLen(inputs) <= MaxTotal
    /\ pieces = <<>>
    /\ arm = "none"
    /\ pc = "call"
    /\ LEN = 0
    /\ arr = <<>>
    /\ written = <<>>
    /\ base = 0
    /\ k = 0
    /\ i = 0
    /\ ARR = <<>>
    /\ out = <<>>

\* _concat!() => ""
concat_empty ==
    /\ pc = "call" /\ macro = "concat" /\ inputs = <<>>
    /\ out' = <<>>
    /\ pc' = "done"
    /\ UNCHANGED <<macro, inputs, pieces, arm, LEN, arr, written, base, k, i, ARR>>

\* _concat!($($maybe),+) and its @impl arm up to the concat_slices! call:
\* every $s is a &str constant, and $s.as_bytes() is handed on.
concat_impl ==
    /\ pc = "call" /\ macro = "concat" /\ inputs # <<>>
    /\ pieces' = [n \in 1 .. Len(ConcatPieces(inputs)) |-> as_bytes(ConcatPieces(inputs)[n])]
    /\ pc' = "slices"
    /\ UNCHANGED <<macro, inputs, arm, LEN, arr, written, base, k, i, ARR, out>>

\* _concat_bytes!() => b""
concat_bytes_empty ==
    /\ pc = "call" /\ macro = "concat_bytes" /\ inputs = <<>>
    /\ out' = <<>>
    /\ pc' = "done"
    /\ UNCHANGED <<macro, inputs, pieces, arm, LEN, arr, written, base, k, i, ARR>>

\* _concat_bytes!($($maybe),+) and its @impl arm
concat_bytes_impl ==
    /\ pc = "call" /\ macro = "concat_bytes" /\ inputs # <<>>
    /\ pieces' = ConcatBytesPieces(inputs)
    /\ pc' = "slices"
    /\ UNCHANGED <<macro, inputs, arm, LEN, arr, written, base, k, i, ARR, out>>

\* concat_slices!([$T]: $($s),*) called directly
concat_slices_call ==
    /\ pc = "call" /\ macro = "concat_slices"
    /\ pieces' = [n \in 1 .. Len(inputs) |-> inputs[n].val]
    /\ pc' = "slices"
    /\ UNCHANGED <<macro, inputs, arm, LEN, arr, written, base, k, i, ARR, out>>

\* _concat_slices!([$T]:) : const ARR: [$T; 0] = []; &ARR
ZeroPieces ==
    /\ pc = "slices" /\ pieces = <<>>
    /\ arm' = "zero"
    /\ ARR' = EmptyArr
    /\ pc' = "ret"
    /\ UNCHANGED <<macro, inputs, pieces, LEN, arr, written, base, k, i, out>>

\* _concat_slices!([$T]: $($s),+) : const LEN
ConstLEN ==
    /\ pc = "slices" /\ pieces # <<>>
    /\ arm' = "many"
    /\ LEN' = SumLen(pieces)
    /\ pc' = "alloc"
    /\ UNCHANGED <<macro, inputs, pieces, arr, written, base, k, i, ARR, out>>

\* let mut arr = [MaybeUninit::zeroed(); LEN]; let mut base = 0;
AllocArr ==
    /\ pc = "alloc"
    /\ arr' = ZeroedArray(LEN)
    /\ written' = [c \in 1 .. Len(ZeroedArray(LEN)) |-> 0]
    /\ base' = 0
    /\ k' = 1
    /\ pc' = "piece"
    /\ UNCHANGED <<macro, inputs, pieces, arm, LEN, i, ARR, out>>

\* The next repetition of $({ let mut i = 0; ... })*, or the end of them.
NextPiece ==
    /\ pc = "piece"
    /\ IF k <= Len(pieces)
       THEN i' = 0 /\ pc' = "loop"
       ELSE i' = i /\ pc' = "guard"
    /\ UNCHANGED <<macro, inputs, pieces, arm, LEN, arr, written, base, k, ARR, out>>

\* One turn of the while loop.  An index past the end of arr is a panic of
\* the constant evaluation.
CopyElem ==
    /\ pc = "loop" /\ i < Len(pieces[k])
    /\ IF CellIndex(base, i) < Len(arr)
       THEN /\ arr' = WriteCell(arr, CellIndex(base, i), ElemAt(pieces[k], i))
            /\ written' = [written EXCEPT ![CellIndex(base, i) + 1] = @ + 1]
            /\ i' = i + 1
            /\ pc' = pc
       ELSE /\ pc' = "index out of bounds"
            /\ UNCHANGED <<arr, written, i>>
    /\ UNCHANGED <<macro, inputs, pieces, arm, LEN, base, k, ARR, out>>

\* The loop is over: base += $s.len();
AdvanceBase ==
    /\ pc = "loop" /\ ~(i < Len(pieces[k]))
    /\ base' = NewBase(base, pieces[k])
    /\ k' = k + 1
    /\ pc' = "piece"
    /\ UNCHANGED <<macro, inputs, pieces, arm, LEN, arr, written, i, ARR, out>>

\* if base != LEN { panic!("invalid length"); } unsafe { transmute(arr) }
GuardAndTransmute ==
    /\ pc = "guard"
    /\ IF base # LEN
       THEN pc' = "invalid length" /\ ARR' = ARR
       ELSE pc' = "ret" /\ ARR' \in Transmute(arr)
    /\ UNCHANGED <<macro, inputs, pieces, arm, LEN, arr, written, base, k, i, out>>

\* &ARR goes back to the macro that asked for it; concat! reads it as text.
Return ==
    /\ pc = "ret"
    /\ IF macro = "concat" THEN out' \in from_utf8_unchecked(ARR) ELSE out' = ARR
    /\ pc' = "done"
    /\ UNCHANGED <<macro, inputs, pieces, arm, LEN, arr, written, base, k, i, ARR>>

Next ==
    \/ concat_empty
    \/ concat_impl
    \/ concat_bytes_empty
    \/ concat_bytes_impl
    \/ concat_slices_call
    \/ ZeroPieces
    \/ ConstLEN
    \/ AllocArr
    \/ NextPiece
    \/ CopyElem
    \/ AdvanceBase
    \/ GuardAndTransmute
    \/ Return

Spec == Init /\ [][Next]_vars

(***************************************************************************)
(* Properties.                                                             *)
(***************************************************************************)

\* The pieces joined end to end.
RECURSIVE Flatten(_)
Flatten(ps) == IF ps = <<>> THEN <<>> ELSE Head(ps) \o Flatten(Tail(ps))

\* The number of elements in the pieces before piece p.
Offset(ps, p) == Len(Flatten(SubSeq(ps, 1, p - 1)))

\* _concat_slices! has produced const ARR.
Produced == arm # "none" /\ pc \in {"ret", "done"}

\* C1: in the result of the slice concatenator, element i of piece p sits at
\* index (number of elements of the pieces before p) + i, for every piece
\* and every i below its length.
OrderProperty ==
    Produced =>
        \A p \in 1 .. Len(pieces) : \A n \in 0 .. Len(pieces[p]) - 1 :
            /\ Offset(pieces, p) + n < Len(ARR)
            /\ ARR[Offset(pieces, p) + n + 1] = pieces[p][n + 1]

OrderWitness ==
    /\ pc = "done" /\ macro = "concat_slices"
    /\ pieces = <<<<0, 1>>, <<1>>, <<1, 0>>>>
    /\ out = <<0, 1, 1, 1, 0>>

\* C2: the length of the result is the sum of the lengths of the pieces, 0
\* for no pieces.
LengthProperty == Produced => Len(ARR) = Len(Flatten(pieces))

LengthWitness ==
    /\ pc = "done" /\ macro = "concat_slices"
    /\ Len(pieces) = 3 /\ Len(pieces[1]) = 2 /\ Len(pieces[2]) = 0 /\ Len(pieces[3]) = 2
    /\ Len(out) = 4

\* C3: when every piece of concat! is valid UTF-8, so are the bytes that are
\* read as text.
ValidText ==
    (macro = "concat" /\ Produced /\ \A p \in 1 .. Len(pieces) : IsValidUtf8(pieces[p]))
        => IsValidUtf8(ARR)

ValidTextWitness ==
    /\ macro = "concat" /\ pc = "done"
    /\ pieces = <<<<226, 130, 172>>, <<240, 159, 142, 137>>>>
    /\ out = <<8364, 127881>>

\* C4: the bytes of the text concat! yields are what the slice concatenator
\* makes of the bytes of the text pieces, in the same order.
TextRoundTrip ==
    (macro = "concat" /\ pc = "done") =>
        concat_slices([n \in 1 .. Len(inputs) |-> as_bytes(_maybe_std_concat(inputs[n]))])
            = {as_bytes(out)}

TextRoundTripWitness ==
    /\ macro = "concat" /\ pc = "done"
    /\ inputs = <<[kind |-> "intlit", val |-> <<4, 2>>], [kind |-> "expr", val |-> <<127881>>]>>
    /\ out = <<52, 50, 127881>>

\* The sequence without its element number p.
Remove(ps, p) == SubSeq(ps, 1, p - 1) \o SubSeq(ps, p + 1, Len(ps))

\* C5: no pieces give the empty sequence, and the result is the one the
\* concatenator gives for the same pieces with an empty piece left out.
EmptyIdentity ==
    Produced =>
        /\ pieces = <<>> => ARR = <<>>
        /\ \A p \in 1 .. Len(pieces) :
              pieces[p] = <<>> => concat_slices(Remove(pieces, p)) = {ARR}

EmptyIdentityWitness ==
    /\ pc = "done" /\ macro = "concat_slices"
    /\ pieces = <<<<1, 0>>, <<>>, <<1>>>>
    /\ out = <<1, 0, 1>>

\* C6: for pieces a, b, c the result is also what the concatenator gives for
\* (its result for a, b) and c, and for a and (its result for b, c).
Associativity ==
    (Produced /\ Len(pieces) = 3) =>
        LET a == pieces[1]
            b == pieces[2]
            c == pieces[3]
        IN  /\ concat_slices(<<a, b, c>>) = {ARR}
            /\ concat_slices(<<a, b>>) # {}
            /\ \A ab \in concat_slices(<<a, b>>) : concat_slices(<<ab, c>>) = {ARR}
            /\ concat_slices(<<b, c>>) # {}
            /\ \A bc \in concat_slices(<<b, c>>) : concat_slices(<<a, bc>>) = {ARR}

AssociativityWitness ==
    /\ pc = "done" /\ macro = "concat_slices"
    /\ pieces = <<<<0, 1>>, <<1, 1>>, <<0>>>>
    /\ out = <<0, 1, 1, 1, 0>>

\* C7: the "invalid length" panic is never reached: at the guard base is LEN,
\* and the staging array is read as [T; LEN] only with base = LEN and every
\* cell initialised.
GuardNeverFails ==
    /\ pc # "invalid length"
    /\ pc = "guard" => base = LEN
    /\ (arm = "many" /\ pc \in {"ret", "done"}) =>
          /\ base = LEN
          /\ Len(arr) = LEN
          /\ \A c \in 1 .. Len(arr) : arr[c].init

GuardWitness == arm = "many" /\ pc = "ret" /\ k = 4 /\ base = 5 /\ LEN = 5

\* C8: every write goes to cell base + i, which is below LEN; no cell is
\* written twice; the cells written so far are the ones below base + i; and
\* once the last piece is copied each of the LEN cells was written once.
WrittenOnce ==
    /\ pc # "index out of bounds"
    /\ (pc = "loop" /\ i < Len(pieces[k])) => base + i < LEN
    /\ \A c \in 1 .. Len(written) : written[c] <= 1
    /\ pc = "loop" =>
          \A c \in 1 .. Len(written) : written[c] = (IF c <= base + i THEN 1 ELSE 0)
    /\ (arm = "many" /\ pc \in {"guard", "ret", "done"}) =>
          /\ Len(written) = LEN
          /\ \A c \in 1 .. LEN : written[c] = 1

WrittenOnceWitness ==
    /\ pc = "loop" /\ k = 2 /\ i = 1 /\ base = 2 /\ LEN = 5
    /\ written = <<1, 1, 1, 0, 0>>

\* C9 as stated: whenever the pieces have no elements at all, the slice
\* concatenator returns without a staging array and without staged
\* construction.
ZeroLengthFastPath ==
    (arm # "none" /\ Len(Flatten(pieces)) = 0) => arm = "zero"

\* C9 as amended: with no pieces the concatenator returns the empty sequence
\* at once, no staging array allocated and no piece visited; with pieces that
\* are all empty it returns the empty sequence too, through a staging array
\* of no cells and a staged construction that writes nothing.
ZeroPiecesFastPath ==
    /\ (arm # "none" /\ pieces = <<>>) =>
          /\ arm = "zero"
          /\ pc \in {"ret", "done"}
          /\ k = 0
          /\ arr = <<>>
          /\ ARR = <<>>
    /\ (arm = "many" /\ Len(Flatten(pieces)) = 0 /\ pc \in {"piece", "loop", "guard", "ret", "done"}) =>
          /\ arr = <<>>
          /\ written = <<>>
          /\ ARR = <<>>

ZeroPiecesWitness ==
    /\ arm = "zero" /\ pc = "done" /\ macro = "concat_slices" /\ inputs = <<>> /\ out = <<>>

\* The number of maximal runs of adjacent literals plus the number of
\* expressions among the inputs.
RunCount(es) ==
    Cardinality({n \in 1 .. Len(es) :
        ~(IsLiteral(es[n]) /\ n > 1 /\ IsLiteral(es[n - 1]))})

\* C10 as stated: concat! and concat_bytes! hand the slice concatenator one
\* piece per maximal run of adjacent literals and one per expression.
LiteralRunsMerged ==
    (macro \in {"concat", "concat_bytes"} /\ arm # "none") =>
        Len(pieces) = RunCount(inputs)

\* C10 as amended: concat! and concat_bytes! hand the slice concatenator one
\* piece per input, in call-site order: each literal converted on its own,
\* each expression as it is.
OnePiecePerInput ==
    (macro \in {"concat", "concat_bytes"} /\ arm # "none") =>
        /\ Len(pieces) = Len(inputs)
        /\ \A n \in 1 .. Len(inputs) :
              pieces[n] = (IF macro = "concat"
                           THEN as_bytes(IF inputs[n].kind = "intlit"
                                         THEN std_concat(inputs[n]) ELSE inputs[n].val)
                           ELSE inputs[n].val)

OnePiecePerInputWitness ==
    /\ macro = "concat" /\ pc = "done"
    /\ inputs = <<[kind |-> "lit", val |-> <<65>>], [kind |-> "lit", val |-> <<233>>]>>
    /\ pieces = <<<<65>>, <<195, 169>>>>

====
